---- MODULE Spec2Model ----
(***************************************************************************)
(* Station discovery and reconciliation of the evolve site:                *)
(*   services.py  NRELClient.geocode_zip / extract_max_power / get_stations*)
(*   views.py     StationListView.get_context_data, SubmitStationStatusView*)
(*   forms.py     StationStatusForm                                        *)
(*   models.py    StationStatus                                            *)
(*                                                                         *)
(* Python strings are TLA+ strings; a Python dict decoded from JSON is a   *)
(* function from its keys to tagged JSON values, so that a key that is     *)
(* missing and a key that holds null are different things, as they are in  *)
(* Python.  Powers are written in tenths of a kW, so that 62.5 kW is the   *)
(* integer 625.                                                            *)
(***************************************************************************)
EXTENDS Integers, Sequences, FiniteSets, TLC

VARIABLES store, request, response, cache, clock, inflight

vars == <<store, request, response, cache, clock, inflight>>

(***************************************************************************)
(* The state: store is the StationStatus table, request the request being  *)
(* served or last served, response its response (NoResponse while it is    *)
(* being served).  cache is the page cache of the station list, clock the  *)
(* time in seconds, and inflight holds the requests that worker threads    *)
(* are in the middle of serving side by side.                              *)
(***************************************************************************)
NoRequest == [op |-> "none"]

NoResponse == [op |-> "none"]

\* the page cache with nothing in it
NoCache == [key \in {} |-> NoResponse]

\* no worker thread is serving anything
NoWorkers == [w \in {} |-> NoRequest]

(***************************************************************************)
(* Python values                                                           *)
(***************************************************************************)
JNull == [t |-> "null"]

JStr(s) == [t |-> "str", v |-> s]

JNum(n) == [t |-> "num", v |-> n]

\* bool(x) of a JSON value: None, 0 and '' are falsy
Truthy(x) ==
    CASE x.t = "null" -> FALSE
      [] x.t = "num"  -> x.v # 0
      [] x.t = "str"  -> x.v # ""

\* dict.get(key, default)
Get(d, key, default) == IF key \in DOMAIN d THEN d[key] ELSE default

\* a call that returned value x / a call that ended in an uncaught exception
Returned(x) == [raised |-> FALSE, value |-> x]

Raised(exc) == [raised |-> TRUE, exc |-> exc]

(***************************************************************************)
(* str methods                                                             *)
(***************************************************************************)
Lowers == "abcdefghijklmnopqrstuvwxyz"

Uppers == "ABCDEFGHIJKLMNOPQRSTUVWXYZ"

CharAt(s, i) == SubSeq(s, i, i)

UpperChar(c) ==
    IF \E i \in 1..Len(Lowers) : CharAt(Lowers, i) = c
    THEN CharAt(Uppers, CHOOSE i \in 1..Len(Lowers) : CharAt(Lowers, i) = c)
    ELSE c

RECURSIVE Upper(_)
\* str.upper()
Upper(s) == IF s = "" THEN "" ELSE UpperChar(Head(s)) \o Upper(Tail(s))

\* needle in hay
Contains(needle, hay) ==
    \E i \in 1..(Len(hay) - Len(needle) + 1) :
        SubSeq(hay, i, i + Len(needle) - 1) = needle

\* ord(c) for the characters of a date string
Ord(c) ==
    CASE c = "-" -> 45
      [] c = "/" -> 47
      [] c = "0" -> 48
      [] c = "1" -> 49
      [] c = "2" -> 50
      [] c = "3" -> 51
      [] c = "4" -> 52
      [] c = "5" -> 53
      [] c = "6" -> 54
      [] c = "7" -> 55
      [] c = "8" -> 56
      [] c = "9" -> 57

RECURSIVE StrGE(_, _)
\* a >= b on Python strings: lexicographic by code point
StrGE(a, b) ==
    IF b = "" THEN TRUE
    ELSE IF a = "" THEN FALSE
    ELSE IF Head(a) = Head(b) THEN StrGE(Tail(a), Tail(b))
    ELSE Ord(Head(a)) > Ord(Head(b))

IsSpace(c) == c \in {" ", "\t", "\n"}

RECURSIVE LStrip(_)
LStrip(s) == IF s # "" /\ IsSpace(Head(s)) THEN LStrip(Tail(s)) ELSE s

RECURSIVE RStrip(_)
RStrip(s) ==
    IF s # "" /\ IsSpace(CharAt(s, Len(s)))
    THEN RStrip(SubSeq(s, 1, Len(s) - 1))
    ELSE s

\* str.strip()
Strip(s) == RStrip(LStrip(s))

(***************************************************************************)
(* services.py: NRELClient.extract_max_power                               *)
(***************************************************************************)
TESLA_V3_KW == 2500

TESLA_V2_KW == 1500

ELECTRIFY_AMERICA_KW == 3500

EVGO_KW == 3500

CHARGEPOINT_KW == 625

FRANCIS_KW == 1500

BLINK_KW == 500

GENERIC_KW == 500

\* TeslaPower with the V3 threshold at the 2019 rollout its comment speaks of
TeslaPower_2019(station) ==
    LET open_date == Get(station, "open_date", JStr(""))
    IN  IF Truthy(open_date) /\ StrGE(open_date.v, "2019-01-01") THEN TESLA_V3_KW
        ELSE TESLA_V2_KW

\* lines 44-57: the Tesla branch, by open_date
TeslaPower(station) ==
    LET open_date == Get(station, "open_date", JStr(""))
    IN  IF Truthy(open_date) /\ StrGE(open_date.v, "2020-01-01") THEN TESLA_V3_KW
        ELSE IF Truthy(open_date) /\ StrGE(open_date.v, "2012-01-01") THEN TESLA_V2_KW
        ELSE TESLA_V2_KW

\* lines 44-76: the if/elif chain over the upper-cased network
NetworkPower(station, network) ==
    IF Contains("TESLA", network) THEN TeslaPower(station)
    ELSE IF Contains("ELECTRIFY AMERICA", network) THEN ELECTRIFY_AMERICA_KW
    ELSE IF Contains("EVGO", network) THEN EVGO_KW
    ELSE IF Contains("CHARGEPOINT", network) THEN CHARGEPOINT_KW
    ELSE IF Contains("FRANCIS", network) THEN FRANCIS_KW
    ELSE IF Contains("BLINK", network) THEN BLINK_KW
    ELSE GENERIC_KW

\* HasExplicitPower without the truthiness test of line 34
HasExplicitPower_keyOnly(station) == "ev_dc_fast_charger_power" \in DOMAIN station

\* line 34: the explicit field is used when the key is there and its value truthy
HasExplicitPower(station) ==
    /\ "ev_dc_fast_charger_power" \in DOMAIN station
    /\ Truthy(station["ev_dc_fast_charger_power"])

\* lines 29-78.  .upper() on None (a key that holds null) is an AttributeError
extract_max_power(station) ==
    IF HasExplicitPower(station)
    THEN Returned(station["ev_dc_fast_charger_power"])
    ELSE LET network == Get(station, "ev_network", JStr(""))
             station_name == Get(station, "station_name", JStr(""))
         IN  IF network.t # "str" \/ station_name.t # "str"
             THEN Raised("AttributeError")
             ELSE Returned(JNum(NetworkPower(station, Upper(network.v))))

(***************************************************************************)
(* services.py: NRELClient.geocode_zip and NRELClient.get_stations          *)
(*                                                                         *)
(* The outside world of one call is a record env:                          *)
(*   api_key  what getattr(settings, 'NREL_API_KEY', None) gives           *)
(*   geo      what the geocoding provider does: "timeout", "service_error" *)
(*            (with exc, the class raised, when it is a subclass of        *)
(*            GeocoderServiceError), "not_found", or "found" with lat, lon *)
(*   http     what requests.get does: "timeout", "request_error", or       *)
(*            "response" with status_code and body; a body is NotJson or   *)
(*            the decoded JSON value                                       *)
(***************************************************************************)
NoCoordinate == [t |-> "null"]

\* a response body that response.json() cannot decode (ValueError)
NotJson == [t |-> "not_json"]

\* the class of the exception geolocator.geocode raises in world geo
GeocoderException(geo) ==
    IF geo.kind = "timeout" THEN "GeocoderTimedOut"
    ELSE IF "exc" \in DOMAIN geo THEN geo.exc
    ELSE "GeocoderServiceError"

\* geopy.exc: the exception classes of geocode and the base classes of each
\* (GeocoderRateLimited is a GeocoderQuotaExceeded)
GeocoderServiceErrors ==
    {"GeocoderServiceError", "GeocoderQueryError", "GeocoderQuotaExceeded",
     "GeocoderRateLimited", "GeocoderAuthenticationFailure",
     "GeocoderInsufficientPrivileges", "GeocoderTimedOut", "GeocoderUnavailable",
     "GeocoderParseError"}

Bases(exc) ==
    {exc} \cup (IF exc \in GeocoderServiceErrors THEN {"GeocoderServiceError"} ELSE {})
          \cup (IF exc = "GeocoderRateLimited" THEN {"GeocoderQuotaExceeded"} ELSE {})
          \cup {"GeopyError", "Exception"}

\* GeocodeCatches of an except clause that names GeocoderTimedOut alone
GeocodeCatches_timeoutOnly == {"GeocoderTimedOut"}

\* line 24: except (GeocoderTimedOut, GeocoderServiceError)
GeocodeCatches == {"GeocoderTimedOut", "GeocoderServiceError"}

\* line 17: the queries put to the provider by one call, in order
ProviderQueries(zip_code) == <<zip_code \o ", USA">>

\* geocode_zip that answers a failed lookup with the coordinates (0, 0)
geocode_zip_zeroOnFailure(zip_code, geo) ==
    IF geo.kind = "found" THEN Returned(<<JNum(geo.lat), JNum(geo.lon)>>)
    ELSE Returned(<<JNum(0), JNum(0)>>)

\* lines 13-26: (latitude, longitude), or (None, None) for a location the
\* provider does not know and for a provider exception the except clause
\* names; any other exception leaves the function
geocode_zip(zip_code, geo) ==
    IF geo.kind = "found" THEN Returned(<<JNum(geo.lat), JNum(geo.lon)>>)
    ELSE IF geo.kind = "not_found" THEN Returned(<<NoCoordinate, NoCoordinate>>)
    ELSE IF Bases(GeocoderException(geo)) \cap GeocodeCatches # {}
    THEN Returned(<<NoCoordinate, NoCoordinate>>)
    ELSE Raised(GeocoderException(geo))

\* Response.raise_for_status(): HTTPError for a 4xx or 5xx status
raise_for_status(status_code) == status_code >= 400 /\ status_code < 600

\* lines 102-113: the query of the one GET
Params(api_key, latitude, longitude) ==
    [api_key |-> api_key, latitude |-> latitude, longitude |-> longitude,
     fuel_type |-> "ELEC", ev_connector_type |-> "CHADEMO,J1772COMBO,TESLA",
     ev_charging_level |-> "dc_fast", limit |-> 50, status |-> "E",
     access |-> "public", radius |-> 25]

RECURSIVE FilterStations(_)
\* lines 124-137: keep the stations with ev_dc_fast_num > 0, in order, each
\* with max_power_kw added.  None > 0 is a TypeError; an exception of
\* extract_max_power passes through.
FilterStations(stations) ==
    IF stations = <<>> THEN Returned(<<>>)
    ELSE LET station == Head(stations)
             num == Get(station, "ev_dc_fast_num", JNum(0))
         IN  IF num.t # "num" THEN Raised("TypeError")
             ELSE IF num.v > 0
             THEN LET power == extract_max_power(station)
                  IN  IF power.raised THEN power
                      ELSE LET rest == FilterStations(Tail(stations))
                               kept == [k \in DOMAIN station \cup {"max_power_kw"} |->
                                          IF k = "max_power_kw" THEN power.value
                                          ELSE station[k]]
                           IN  IF rest.raised THEN rest
                               ELSE Returned(<<kept>> \o rest.value)
             ELSE FilterStations(Tail(stations))

\* lines 120-140: data = response.json(); data.get('fuel_stations', []).
\* .get on a JSON value that is no object is an AttributeError, which the
\* except clause of line 142 does not catch.
ParseStations(body) ==
    IF body.t # "object" THEN Raised("AttributeError")
    ELSE FilterStations(Get(body.v, "fuel_stations", <<>>))

\* FetchStations whose except clause catches requests.RequestException only
FetchStations_noValueError(http) ==
    IF http.kind \in {"timeout", "request_error"} THEN Returned(<<>>)
    ELSE IF raise_for_status(http.status_code) THEN Returned(<<>>)
    ELSE IF http.body = NotJson THEN Raised("ValueError")
    ELSE ParseStations(http.body)

\* lines 115-144: the GET and what becomes of its outcome
FetchStations(http) ==
    IF http.kind \in {"timeout", "request_error"} THEN Returned(<<>>)
    ELSE IF raise_for_status(http.status_code) THEN Returned(<<>>)
    ELSE IF http.body = NotJson THEN Returned(<<>>)
    ELSE ParseStations(http.body)

\* NoApiKey that tests api_key is None instead of not api_key
NoApiKey_noneOnly(env) == env.api_key = JNull

\* lines 91-94: not api_key
NoApiKey(env) == env.api_key \in {JNull, JStr("")}

\* lines 80-144.  The result carries the calls made on the way, in order.
get_stations(location, env) ==
    IF NoApiKey(env)
    THEN [r |-> Returned(<<>>), calls |-> <<>>]
    ELSE LET located == geocode_zip(location, env.geo)
             geocoded == [q \in DOMAIN ProviderQueries(location) |->
                            [call |-> "geocode", query |-> ProviderQueries(location)[q]]]
         IN  IF located.raised
             THEN [r |-> located, calls |-> geocoded]
             ELSE IF located.value[1] = NoCoordinate \/ located.value[2] = NoCoordinate
             THEN [r |-> Returned(<<>>), calls |-> geocoded]
             ELSE [r |-> FetchStations(env.http),
                   calls |-> geocoded \o
                             <<[call |-> "GET",
                                params |-> Params(env.api_key.v, located.value[1].v,
                                                  located.value[2].v)]>>]

(***************************************************************************)
(* models.py: StationStatus.  The table is the sequence of its rows in     *)
(* primary-key order; a row is                                             *)
(*   [nrel_station_id, status, user, updated_at].                          *)
(* updated_at (auto_now) is the clock reading at the save.  The clock does *)
(* not run backwards and has a finite resolution, so a save reads either   *)
(* the latest reading stored so far or a later one; readings are numbered  *)
(* 0, 1, 2, ... in the order they occur.                                   *)
(***************************************************************************)
STATUS_CHOICES == {"Working", "Broken", "Busy"}

Timestamps(rows) == {rows[i].updated_at : i \in DOMAIN rows}

MaxOf(S) == CHOOSE x \in S : \A y \in S : y <= x

\* the readings timezone.now() can give at the next save
ClockReadings(rows) ==
    IF rows = <<>> THEN {0} ELSE {MaxOf(Timestamps(rows)), MaxOf(Timestamps(rows)) + 1}

\* Create as update_or_create would do it: one row per identifier, status and user
Create_updateOrCreate(rows, nrel_station_id, status, user, now) ==
    IF \E i \in DOMAIN rows : /\ rows[i].nrel_station_id = nrel_station_id
                              /\ rows[i].status = status
                              /\ rows[i].user = user
    THEN [i \in DOMAIN rows |->
            IF /\ rows[i].nrel_station_id = nrel_station_id
               /\ rows[i].status = status
               /\ rows[i].user = user
            THEN [rows[i] EXCEPT !.updated_at = now]
            ELSE rows[i]]
    ELSE Append(rows, [nrel_station_id |-> nrel_station_id, status |-> status,
                       user |-> user, updated_at |-> now])

\* Create under a unique (nrel_station_id, updated_at) whose conflicts are
\* ignored: a second row of one station with one timestamp is not written
Create_ignoreConflicts(rows, nrel_station_id, status, user, now) ==
    IF \E i \in DOMAIN rows : /\ rows[i].nrel_station_id = nrel_station_id
                              /\ rows[i].updated_at = now
    THEN rows
    ELSE Append(rows, [nrel_station_id |-> nrel_station_id, status |-> status,
                       user |-> user, updated_at |-> now])

\* Create that keeps one row per station: the station's earlier rows go
Create_onePerStation(rows, nrel_station_id, status, user, now) ==
    Append(SelectSeq(rows, LAMBDA r : r.nrel_station_id # nrel_station_id),
           [nrel_station_id |-> nrel_station_id, status |-> status,
            user |-> user, updated_at |-> now])

\* StationStatus.objects.create(...): one INSERT
Create(rows, nrel_station_id, status, user, now) ==
    Append(rows, [nrel_station_id |-> nrel_station_id, status |-> status,
                  user |-> user, updated_at |-> now])

(***************************************************************************)
(* forms.py: StationStatusForm, and views.py: SubmitStationStatusView      *)
(* A POST body is a dict of strings.                                       *)
(***************************************************************************)
Anonymous == "AnonymousUser"

\* CharField.to_python: '' for a missing value, else the value stripped
CleanStationId(post) ==
    IF "station_id" \in DOMAIN post THEN Strip(post["station_id"]) ELSE ""

\* ChoiceField.to_python: '' for a missing value, else the value as it is
CleanStatus(post) == IF "status" \in DOMAIN post THEN post["status"] ELSE ""

\* FormErrors with status a CharField: required, but any text passes
FormErrors_anyStatus(post) ==
    {f \in {"station_id"} : CleanStationId(post) = ""}
        \cup {f \in {"status"} : CleanStatus(post) = ""}

\* the fields form.errors names: both fields are required, and status must
\* be one of the choices
FormErrors(post) ==
    {f \in {"station_id"} : CleanStationId(post) = ""}
        \cup {f \in {"status"} : CleanStatus(post) \notin STATUS_CHOICES}

\* form.is_valid()
IsValid(post) == FormErrors(post) = {}

\* IsAuthenticated of a view without LoginRequiredMixin
IsAuthenticated_noMixin(user) == TRUE

\* LoginRequiredMixin.dispatch: request.user.is_authenticated
IsAuthenticated(user) == user # Anonymous

\* views.py 298-300
handle_no_permission ==
    [status_code |-> 403, json |-> [success |-> FALSE, error |-> "Login required"]]

\* views.py 283-296: the response of post
PostResponse(post) ==
    IF IsValid(post)
    THEN [status_code |-> 200, json |-> [success |-> TRUE, status |-> CleanStatus(post)]]
    ELSE [status_code |-> 400, json |-> [success |-> FALSE, errors |-> FormErrors(post)]]

\* PostStore that saves request.POST['station_id'] instead of cleaned_data
PostStore_rawStationId(rows, user, post, now) ==
    IF IsValid(post)
    THEN Create(rows, post["station_id"], CleanStatus(post), user, now)
    ELSE rows

\* views.py 283-296: the table after post
PostStore(rows, user, post, now) ==
    IF IsValid(post)
    THEN Create(rows, CleanStationId(post), CleanStatus(post), user, now)
    ELSE rows

\* CacheAfterPost of a post that clears the page cache when it is done
CacheAfterPost_clear(entries) == NoCache

\* views.py 283-296: the page cache after post, which never touches it
CacheAfterPost(entries) == entries

\* views.py 278-300: the pending POST to stations/status/ is served for its
\* user (Anonymous when not logged in); dispatch decides the authorization
\* before post runs.  now is the clock reading of the save.
SubmitStationStatus(now) ==
    /\ request.op = "submit_status"
    /\ response = NoResponse
    /\ IF IsAuthenticated(request.user)
       THEN /\ response' = PostResponse(request.post)
            /\ store' = PostStore(store, request.user, request.post, now)
       ELSE /\ response' = handle_no_permission
            /\ store' = store
    /\ cache' = CacheAfterPost(cache)
    /\ UNCHANGED <<request, clock, inflight>>

(***************************************************************************)
(* views.py: StationListView.get_context_data                              *)
(***************************************************************************)
PER_PAGE == 10

SEARCH_TYPE_CHOICES == {"zip", "city"}

CONNECTOR_CHOICES == {"", "CHADEMO", "J1772COMBO", "TESLA"}

NETWORK_CHOICES ==
    {"", "Tesla", "Electrify America", "EVgo Network", "ChargePoint Network",
     "Blink Network", "Francis Energy"}

\* a CharField's cleaned value: '' for a missing value, else stripped
CleanChar(get, field) == IF field \in DOMAIN get THEN Strip(get[field]) ELSE ""

\* SearchFormValid of a form without the clean() of lines 127-138
SearchFormValid_noClean(get) ==
    /\ DOMAIN get # {}
    /\ Get(get, "search_type", "") \in SEARCH_TYPE_CHOICES
    /\ LET zip == CleanChar(get, "zip_code")
       IN  zip = "" \/ (Len(zip) >= 5 /\ Len(zip) <= 10)
    /\ Len(CleanChar(get, "city_state")) <= 100
    /\ Get(get, "connector_type", "") \in CONNECTOR_CHOICES
    /\ Get(get, "network", "") \in NETWORK_CHOICES

\* forms.py 62-138: StationSearchForm(GET or None).is_valid(); a form
\* without data is unbound and not valid
SearchFormValid(get) ==
    /\ DOMAIN get # {}
    /\ Get(get, "search_type", "") \in SEARCH_TYPE_CHOICES
    /\ LET zip == CleanChar(get, "zip_code")
       IN  zip = "" \/ (Len(zip) >= 5 /\ Len(zip) <= 10)
    /\ Len(CleanChar(get, "city_state")) <= 100
    /\ Get(get, "connector_type", "") \in CONNECTOR_CHOICES
    /\ Get(get, "network", "") \in NETWORK_CHOICES
    /\ get["search_type"] = "zip" => CleanChar(get, "zip_code") # ""
    /\ get["search_type"] = "city" => CleanChar(get, "city_state") # ""

\* views.py 227-230
SearchLocation(get) ==
    IF get["search_type"] = "zip"
    THEN CleanChar(get, "zip_code")
    ELSE CleanChar(get, "city_state")

\* views.py 239: str(s['id'])
StationId(station) == ToString(station["id"].v)

\* views.py 239
StationIds(stations) == {StationId(stations[i]) : i \in DOMAIN stations}

\* views.py 242-248: identifier -> Max(updated_at), over the rows whose
\* identifier is one of station_ids
LatestIds(rows, station_ids) ==
    [sid \in {rows[i].nrel_station_id : i \in DOMAIN rows} \cap station_ids |->
        MaxOf({rows[i].updated_at : i \in {j \in DOMAIN rows : rows[j].nrel_station_id = sid}})]

\* StatusRecords as one .latest('updated_at') lookup over all the stations
\* listed would give it: the rows at the newest of the timestamps only
StatusRecords_newestOnly(rows, station_ids) ==
    LET mine == {i \in DOMAIN rows : rows[i].nrel_station_id \in station_ids}
    IN  {i \in mine : \A j \in mine : rows[j].updated_at <= rows[i].updated_at}

\* views.py 251-254: the rows (by primary key) whose identifier is one of
\* station_ids and whose updated_at is one of the latest_ids values
StatusRecords(rows, station_ids) ==
    LET latest_ids == LatestIds(rows, station_ids)
        latest == {latest_ids[sid] : sid \in DOMAIN latest_ids}
    IN  {i \in DOMAIN rows : /\ rows[i].nrel_station_id \in station_ids
                             /\ rows[i].updated_at \in latest}

RECURSIVE StatusMap(_, _)
\* views.py 255: {s.nrel_station_id: s.status for s in status_records}, the
\* records iterated in the order the query returned them: a later record
\* replaces an earlier one with the same identifier
StatusMap(rows, order) ==
    IF order = <<>> THEN [sid \in {} |-> ""]
    ELSE LET before == StatusMap(rows, SubSeq(order, 1, Len(order) - 1))
             s == rows[order[Len(order)]]
         IN  [sid \in DOMAIN before \cup {s.nrel_station_id} |->
                 IF sid = s.nrel_station_id THEN s.status ELSE before[sid]]

\* the orders a query without ORDER BY can return the rows S in
QueryOrders(S) ==
    {o \in [1..Cardinality(S) -> S] : \A i, j \in DOMAIN o : o[i] = o[j] => i = j}

\* views.py 257-259: station['local_status'] = status_map.get(station_id)
AttachLocalStatus(stations, status_map) ==
    [i \in DOMAIN stations |->
        [k \in DOMAIN stations[i] \cup {"local_status"} |->
            IF k = "local_status"
            THEN IF StationId(stations[i]) \in DOMAIN status_map
                 THEN JStr(status_map[StationId(stations[i])])
                 ELSE JNull
            ELSE stations[i][k]]]

\* views.py 238-259: the merge, when there are stations
MergeLocalStatus(stations, rows, order) ==
    IF stations = <<>> THEN stations
    ELSE AttachLocalStatus(stations, StatusMap(rows, order))

DigitValue(c) == Ord(c) - 48

IsDigits(s) == s # "" /\ \A i \in 1..Len(s) : CharAt(s, i) \in
                   {"0", "1", "2", "3", "4", "5", "6", "7", "8", "9"}

RECURSIVE DigitsValue(_)
DigitsValue(s) ==
    IF s = "" THEN 0
    ELSE 10 * DigitsValue(SubSeq(s, 1, Len(s) - 1)) + DigitValue(CharAt(s, Len(s)))

\* int(number) of Paginator.validate_number: surrounding blanks and a sign
\* are allowed; anything else, None included, is PageNotAnInteger
ParseInt(number) ==
    IF number = JNull THEN [ok |-> FALSE]
    ELSE LET t == Strip(number.v)
             signed == t # "" /\ Head(t) \in {"-", "+"}
             digits == IF signed THEN Tail(t) ELSE t
         IN  IF IsDigits(digits)
             THEN [ok |-> TRUE,
                   n |-> IF signed /\ Head(t) = "-" THEN 0 - DigitsValue(digits)
                         ELSE DigitsValue(digits)]
             ELSE [ok |-> FALSE]

\* Paginator.num_pages: an empty list has one (empty) page
NumPages(count) == IF count = 0 THEN 1 ELSE (count + PER_PAGE - 1) \div PER_PAGE

\* PageNumber that answers an out-of-range number with page 1
PageNumber_firstWhenOutOfRange(number, count) ==
    LET parsed == ParseInt(number)
    IN  IF ~parsed.ok THEN 1
        ELSE IF parsed.n < 1 \/ parsed.n > NumPages(count) THEN 1
        ELSE parsed.n

\* Paginator.get_page: page 1 for a number that is no integer, the last page
\* for a number below 1 or above the last page
PageNumber(number, count) ==
    LET parsed == ParseInt(number)
    IN  IF ~parsed.ok THEN 1
        ELSE IF parsed.n < 1 \/ parsed.n > NumPages(count) THEN NumPages(count)
        ELSE parsed.n

Min(a, b) == IF a <= b THEN a ELSE b

\* Paginator.page: object_list[bottom:top]
GetPage(object_list, number) ==
    LET n == PageNumber(number, Len(object_list))
    IN  [number |-> n,
         object_list |-> SubSeq(object_list, (n - 1) * PER_PAGE + 1,
                                Min(n * PER_PAGE, Len(object_list)))]

\* views.py 217-276: the context of a GET of stations/ with query get, in
\* outside world env, the status records coming back in order
ContextData(get, rows, order, found) ==
    LET valid == SearchFormValid(get)
        stations == IF valid THEN MergeLocalStatus(found, rows, order) ELSE <<>>
    IN  [form |-> [is_bound |-> DOMAIN get # {}, is_valid |-> valid],
         page_obj |-> GetPage(stations, IF "page" \in DOMAIN get THEN JStr(get["page"]) ELSE JNull),
         paginator |-> [object_list |-> stations, per_page |-> PER_PAGE],
         error_message |-> IF valid /\ found = <<>> /\ SearchLocation(get) # ""
                           THEN JStr("No stations found or API unavailable. Please try again.")
                           ELSE JNull]

\* what get_stations gives the view: nothing is asked of it for an invalid form
ViewStations(get, env) ==
    IF SearchFormValid(get)
    THEN get_stations(SearchLocation(get), env)
    ELSE [r |-> Returned(<<>>), calls |-> <<>>]

\* SearchStore of a merge that clears away the rows it found superseded
SearchStore_pruneOld(rows, stations) ==
    LET kept == StatusRecords(rows, StationIds(stations))
    IN  SelectSeq(rows, LAMBDA r :
            \/ r.nrel_station_id \notin StationIds(stations)
            \/ \E i \in kept : rows[i] = r)

\* views.py 242-254: the table after the merge for stations.  Both queries
\* (filter/values/annotate and filter) are SELECTs: nothing is saved
SearchStore(rows, stations) == rows

\* views.py 223-232: the locations get_stations was called with, in order
ClientCalls(get) == IF SearchFormValid(get) THEN <<SearchLocation(get)>> ELSE <<>>

\* the status records the merge reads for this request
ViewStatusRecords(get, env, rows) ==
    LET got == ViewStations(get, env)
    IN  IF got.r.raised \/ got.r.value = <<>> THEN {}
        ELSE StatusRecords(rows, StationIds(got.r.value))

\* views.py 210-276: the response to a GET of stations/ with query get; an
\* exception that leaves get_context_data is a 500
ListResponse(get, env, rows, order) ==
    LET got == ViewStations(get, env)
    IN  IF got.r.raised
        THEN [status_code |-> 500, exc |-> got.r.exc, calls |-> got.calls,
              get_stations_calls |-> ClientCalls(get)]
        ELSE [status_code |-> 200,
              context |-> ContextData(get, rows, order, got.r.value),
              calls |-> got.calls,
              get_stations_calls |-> ClientCalls(get)]

\* views.py 210-276: the pending GET of stations/ is served by the view
StationList(order) ==
    /\ request.op = "station_list"
    /\ response = NoResponse
    /\ LET got == ViewStations(request.get, request.env)
       IN /\ response' = ListResponse(request.get, request.env, store, order)
          /\ store' = SearchStore(store, IF got.r.raised THEN <<>> ELSE got.r.value)
    /\ UNCHANGED <<request, cache, clock, inflight>>

(***************************************************************************)
(* Station records the station-finder API can send.  The API sends a field *)
(* without a value as a key holding null; a dict built elsewhere may lack   *)
(* the key.  station_name and id are always sent as values.                 *)
(***************************************************************************)
Absent == [t |-> "absent"]

\* the dict with the keys of f whose value is not Absent
MkDict(f) == [k \in {j \in DOMAIN f : f[j] # Absent} |-> f[k]]

Pad2(n) == IF n < 10 THEN "0" \o ToString(n) ELSE ToString(n)

\* the API's date format, YYYY-MM-DD
IsoDate(d) == ToString(d[1]) \o "-" \o Pad2(d[2]) \o "-" \o Pad2(d[3])

\* d is on or after e, as calendar dates <<year, month, day>>
DateGE(d, e) ==
    \/ d[1] > e[1]
    \/ d[1] = e[1] /\ d[2] > e[2]
    \/ d[1] = e[1] /\ d[2] = e[2] /\ d[3] >= e[3]

OpenDates ==
    { <<1999, 10, 15>>, <<2011, 12, 31>>, <<2012, 1, 1>>, <<2015, 3, 1>>,
      <<2019, 12, 31>>, <<2020, 1, 1>>, <<2020, 5, 1>> }

ExplicitPowers == {Absent, JNull, JNum(0), JNum(1750), JNum(500)}

NetworkNames ==
    { "", "Tesla", "TESLA", "Tesla Destination", "Blink Tesla", "EVgo Tesla",
      "Electrify America", "electrify america", "EVgo Network", "eVgo",
      "ChargePoint Network", "ChargePoint EVgo", "Francis Energy",
      "Francis ChargePoint", "Blink Network", "Blink Francis",
      "Non-Networked", "Electrify", "Unknown" }

Networks == {Absent, JNull} \cup {JStr(n) : n \in NetworkNames}

OpenDateValues == {Absent, JNull, JStr("")} \cup {JStr(IsoDate(d)) : d \in OpenDates}

StationNames == {Absent, JStr("Tesla Supercharger"), JStr("Test EA Station")}

UpdatedAts == {Absent, JStr("2021-06-01T00:00:00Z")}

PowerStations ==
    { MkDict([ev_dc_fast_charger_power |-> p, ev_network |-> n, open_date |-> d,
              station_name |-> s, updated_at |-> u]) :
        p \in ExplicitPowers, n \in Networks, d \in OpenDateValues,
        s \in StationNames, u \in UpdatedAts }

\* extract_max_power applied to one station record
InitPower ==
    /\ store = <<>>
    /\ request \in {[op |-> "extract_max_power", station |-> s] : s \in PowerStations}
    /\ response = NoResponse
    /\ cache = NoCache
    /\ clock = 0
    /\ inflight = NoWorkers

ExtractMaxPower ==
    /\ request.op = "extract_max_power"
    /\ response = NoResponse
    /\ response' = extract_max_power(request.station)
    /\ UNCHANGED <<store, request, cache, clock, inflight>>

NextPower == ExtractMaxPower

SpecPower == InitPower /\ [][NextPower]_vars

(***************************************************************************)
(* get_stations applied to one location in one outside world               *)
(***************************************************************************)
MaxStations == 2

Tesla1 ==
    [id |-> JNum(1), station_name |-> JStr("Test Tesla Station"),
     ev_network |-> JStr("Tesla"), ev_dc_fast_num |-> JNum(4),
     open_date |-> JStr("2020-05-01")]

Electrify2 ==
    [id |-> JNum(2), station_name |-> JStr("Test EA Station"),
     ev_network |-> JStr("Electrify America"), ev_dc_fast_num |-> JNum(2),
     open_date |-> JNull]

NoFast3 ==
    [id |-> JNum(3), station_name |-> JStr("Level 2 Only"),
     ev_network |-> JStr("ChargePoint Network"), ev_dc_fast_num |-> JNum(0)]

NoCount4 ==
    [id |-> JNum(4), station_name |-> JStr("No Count"),
     ev_network |-> JStr("Blink Network")]

NullNetwork5 ==
    [id |-> JNum(5), station_name |-> JStr("No Network"),
     ev_network |-> JNull, ev_dc_fast_num |-> JNum(1)]

NullCount6 ==
    [id |-> JNum(6), station_name |-> JStr("Null Count"),
     ev_network |-> JStr("EVgo Network"), ev_dc_fast_num |-> JNull]

NoNetwork7 ==
    [id |-> JNum(7), station_name |-> JStr("No Network Key"), ev_dc_fast_num |-> JNum(1)]

ApiStations ==
    {Tesla1, Electrify2, NoFast3, NoCount4, NullNetwork5, NullCount6, NoNetwork7}

\* the sequences over S of length at most n
SeqsUpTo(S, n) == UNION {[1..k -> S] : k \in 0..n}

JObject(d) == [t |-> "object", v |-> d]

JList(l) == [t |-> "list", v |-> l]

Bodies ==
    {NotJson, JObject([errors |-> JStr("none")]), JList(<<>>)}
        \cup {JObject([fuel_stations |-> l]) : l \in SeqsUpTo(ApiStations, MaxStations)}

HttpOutcomes ==
    {[kind |-> "timeout"], [kind |-> "request_error"]}
        \cup {[kind |-> "response", status_code |-> c, body |-> b] :
                c \in {200, 404, 500}, b \in Bodies}

GeoOutcomes ==
    {[kind |-> "timeout"], [kind |-> "service_error"], [kind |-> "not_found"],
     [kind |-> "found", lat |-> 35, lon |-> -101]}

ApiKeys == {JNull, JStr(""), JStr("KEY")}

Envs == [api_key : ApiKeys, geo : GeoOutcomes, http : HttpOutcomes]

Locations == {"79101", "Amarillo, TX"}

InitStations ==
    /\ store = <<>>
    /\ request \in {[op |-> "get_stations", location |-> l, env |-> e] :
                      l \in Locations, e \in Envs}
    /\ response = NoResponse
    /\ cache = NoCache
    /\ clock = 0
    /\ inflight = NoWorkers

GetStations ==
    /\ request.op = "get_stations"
    /\ response = NoResponse
    /\ response' = get_stations(request.location, request.env)
    /\ UNCHANGED <<store, request, cache, clock, inflight>>

NextStations == GetStations

SpecStations == InitStations /\ [][NextStations]_vars

(***************************************************************************)
(* Properties of get_stations (checked under SpecStations)                 *)
(***************************************************************************)
StationsDone == request.op = "get_stations" /\ response # NoResponse

\* the call met one of the failure modes get_stations is to absorb
FailureMode(env) ==
    \/ env.api_key \in {JNull, JStr("")}
    \/ env.geo.kind # "found"
    \/ env.http.kind = "timeout"
    \/ env.http.kind = "request_error"
    \/ env.http.kind = "response" /\ env.http.status_code \notin 200..299
    \/ env.http.kind = "response" /\ env.http.body = NotJson

PowerDone == request.op = "extract_max_power" /\ response # NoResponse

\* the record carries an explicit DC-fast power that is present and non-zero
ExplicitPresentNonZero(s) ==
    /\ "ev_dc_fast_charger_power" \in DOMAIN s
    /\ s["ev_dc_fast_charger_power"].t = "num"
    /\ s["ev_dc_fast_charger_power"].v # 0

\* the record s without key k
Without(s, k) == [j \in DOMAIN s \ {k} |-> s[j]]

\* the record s with station_name n and updated_at u
Renamed(s, n, u) ==
    MkDict([k \in DOMAIN s \cup {"station_name", "updated_at"} |->
              IF k = "station_name" THEN n ELSE IF k = "updated_at" THEN u ELSE s[k]])

\* the network name of s contains keyword kw, whatever the case
NetworkHas(s, kw) ==
    /\ "ev_network" \in DOMAIN s
    /\ s["ev_network"].t = "str"
    /\ Contains(kw, Upper(s["ev_network"].v))

\* C7: an explicit DC-fast power that is present and non-zero is returned
\* verbatim whatever the network and open date; without one (absent, null or
\* zero) the result is what the same record without the field gets.
C7_ExplicitPowerVerbatim ==
    PowerDone =>
        LET s == request.station
        IN  IF ExplicitPresentNonZero(s)
            THEN response = Returned(s["ev_dc_fast_charger_power"])
            ELSE response = extract_max_power(Without(s, "ev_dc_fast_charger_power"))

\* an explicit 175 kW on a Tesla station opened in 2020 gives 175, not 250
C7_Witness ==
    /\ PowerDone
    /\ NetworkHas(request.station, "TESLA")
    /\ Get(request.station, "open_date", JNull) = JStr("2020-05-01")
    /\ Get(request.station, "ev_dc_fast_charger_power", JNull) = JNum(1750)
    /\ response = Returned(JNum(1750))

\* an explicit 0 on an Electrify America station falls through to the rules
C7_WitnessZero ==
    /\ PowerDone
    /\ Get(request.station, "ev_dc_fast_charger_power", JNull) = JNum(0)
    /\ NetworkHas(request.station, "ELECTRIFY AMERICA")
    /\ response = Returned(JNum(3500))

\* the power the Tesla rule gives station s: 250 from 2020-01-01 on, else 150
TeslaExpected(s) ==
    IF \E d \in OpenDates :
          /\ Get(s, "open_date", JNull) = JStr(IsoDate(d))
          /\ DateGE(d, <<2020, 1, 1>>)
    THEN 2500
    ELSE 1500

\* C8: without explicit power, a network name containing TESLA gives 250 for
\* an open date >= 2020-01-01 and 150 for an earlier or missing open date,
\* also when the name contains another rule's keyword.
C8_TeslaRule ==
    (PowerDone /\ ~ExplicitPresentNonZero(request.station)
               /\ NetworkHas(request.station, "TESLA"))
        => response = Returned(JNum(TeslaExpected(request.station)))

\* a network naming both EVgo and Tesla, opened 2019-12-31, takes the Tesla branch
C8_Witness ==
    /\ PowerDone
    /\ ~ExplicitPresentNonZero(request.station)
    /\ Get(request.station, "ev_network", JNull) = JStr("EVgo Tesla")
    /\ Get(request.station, "open_date", JNull) = JStr("2019-12-31")
    /\ response = Returned(JNum(1500))

\* the power the claimed rule order gives a station outside the Tesla rule
RuleExpected(s) ==
    IF NetworkHas(s, "ELECTRIFY AMERICA") THEN 3500
    ELSE IF NetworkHas(s, "EVGO") THEN 3500
    ELSE IF NetworkHas(s, "CHARGEPOINT") THEN 625
    ELSE IF NetworkHas(s, "FRANCIS") THEN 1500
    ELSE IF NetworkHas(s, "BLINK") THEN 500
    ELSE 500

\* C9: without explicit power and without TESLA in the network name the
\* result is the first match of ELECTRIFY AMERICA 350, EVGO 350,
\* CHARGEPOINT 62.5, FRANCIS 150, BLINK 50, and 50 when nothing matches,
\* a record that has no network name included.
C9_NetworkRules ==
    (PowerDone /\ ~ExplicitPresentNonZero(request.station)
               /\ ~NetworkHas(request.station, "TESLA"))
        => response = Returned(JNum(RuleExpected(request.station)))

\* the same, for the records whose network is a string or whose key is missing
C9_NetworkRulesOnStrings ==
    (PowerDone /\ ~ExplicitPresentNonZero(request.station)
               /\ ~NetworkHas(request.station, "TESLA")
               /\ Get(request.station, "ev_network", JStr("")) # JNull)
        => response = Returned(JNum(RuleExpected(request.station)))

\* C10: extract_max_power is total and deterministic: it never raises, its
\* value is the explicit power or one of 250, 150, 350, 62.5, 50, and records
\* that differ only in station name and updated_at get the same value.
C10_TotalDeterministic ==
    PowerDone =>
        /\ response.raised = FALSE
        /\ \/ /\ ExplicitPresentNonZero(request.station)
              /\ response.value = request.station["ev_dc_fast_charger_power"]
           \/ response.value \in {JNum(2500), JNum(1500), JNum(3500), JNum(625), JNum(500)}
        /\ \A n \in StationNames, u \in UpdatedAts :
              extract_max_power(Renamed(request.station, n, u)) = response

(***************************************************************************)
(* The site: requests arrive one at a time and are served to completion.   *)
(***************************************************************************)
MaxRows == 3

MaxSubmissions == 2

Users == {"alice", "bob"}

Idle == request = NoRequest \/ response # NoResponse

\* a POST to stations/status/ arrives
ReceiveSubmit(user, post) ==
    /\ Idle
    /\ request' = [op |-> "submit_status", user |-> user, post |-> post]
    /\ response' = NoResponse
    /\ UNCHANGED <<store, cache, clock, inflight>>

\* a GET of stations/ arrives, and env is the outside world it will meet
ReceiveSearch(get, env) ==
    /\ Idle
    /\ request' = [op |-> "station_list", get |-> get, env |-> env]
    /\ response' = NoResponse
    /\ UNCHANGED <<store, cache, clock, inflight>>

ServeSubmit == \E now \in ClockReadings(store) : SubmitStationStatus(now)

ServeSearch ==
    /\ request.op = "station_list"
    /\ \E order \in QueryOrders(ViewStatusRecords(request.get, request.env, store)) :
          StationList(order)

Init ==
    /\ store = <<>>
    /\ request = NoRequest
    /\ response = NoResponse
    /\ cache = NoCache
    /\ clock = 0
    /\ inflight = NoWorkers

EmptyQuery == [k \in {} |-> ""]

ZipQuery == [search_type |-> "zip", zip_code |-> "79101"]

\* the outside world in which the API answers 200 with the stations listed
ApiAnswers(stations) ==
    [api_key |-> JStr("KEY"), geo |-> [kind |-> "found", lat |-> 35, lon |-> -101],
     http |-> [kind |-> "response", status_code |-> 200,
               body |-> JObject([fuel_stations |-> stations])]]

ApiTimesOut ==
    [api_key |-> JStr("KEY"), geo |-> [kind |-> "found", lat |-> 35, lon |-> -101],
     http |-> [kind |-> "timeout"]]

\* the searches made of the site: query and outside world
SiteSearches ==
    { [get |-> ZipQuery, env |-> ApiAnswers(<<Tesla1, Electrify2>>)],
      [get |-> [search_type |-> "city", city_state |-> "Amarillo, TX", page |-> "2"],
       env |-> ApiAnswers(<<Electrify2, NoFast3>>)],
      [get |-> ZipQuery, env |-> ApiTimesOut],
      [get |-> ZipQuery, env |-> ApiAnswers(<<NullNetwork5>>)],
      [get |-> [search_type |-> "city"], env |-> ApiAnswers(<<Tesla1, Electrify2>>)],
      [get |-> EmptyQuery, env |-> ApiAnswers(<<Tesla1, Electrify2>>)] }

\* the submissions made to the site: user and POST body
SiteSubmissions ==
    {[user |-> "alice", post |-> [station_id |-> i, status |-> st]] :
        i \in {"1", "2"}, st \in {"Working", "Broken"}}
      \cup {[user |-> Anonymous, post |-> [station_id |-> "1", status |-> "Busy"]],
            [user |-> "alice", post |-> [station_id |-> "2", status |-> "Bogus"]]}

Next ==
    \/ \E sub \in SiteSubmissions :
          Len(store) < MaxRows /\ ReceiveSubmit(sub.user, sub.post)
    \/ ServeSubmit
    \/ \E search \in SiteSearches : ReceiveSearch(search.get, search.env)
    \/ ServeSearch

Spec == Init /\ [][Next]_vars

(***************************************************************************)
(* The submission endpoint alone, over every shape of POST                 *)
(***************************************************************************)
StationIdInputs == {Absent, JStr(""), JStr("  "), JStr("7"), JStr(" 7 ")}

StatusInputs ==
    {Absent, JStr(""), JStr("Working"), JStr("Broken"), JStr("Busy"), JStr("InvalidStatus")}

\* a POST body: the keys whose input is not Absent, with their strings
Posts ==
    { [k \in {j \in {"station_id", "status"} :
                 (IF j = "station_id" THEN i ELSE st) # Absent} |->
          IF k = "station_id" THEN i.v ELSE st.v] :
        i \in StationIdInputs, st \in StatusInputs }

NextSubmit ==
    \/ \E user \in Users \cup {Anonymous}, post \in Posts :
          Len(store) < MaxSubmissions /\ ReceiveSubmit(user, post)
    \/ ServeSubmit

SpecSubmit == Init /\ [][NextSubmit]_vars

(***************************************************************************)
(* Properties of the submission endpoint (checked under SpecSubmit)        *)
(***************************************************************************)
\* this step serves the pending POST
SubmitServed ==
    request.op = "submit_status" /\ response = NoResponse /\ response' # NoResponse

\* the POST carries a status that is one of the three choices
StatusGiven(post) == "status" \in DOMAIN post /\ post["status"] \in {"Working", "Broken", "Busy"}

\* the POST carries a station_id that is not the empty string
StationIdGiven(post) == "station_id" \in DOMAIN post /\ post["station_id"] # ""

\* the POST carries a station_id that is not blank
StationIdNotBlank(post) == "station_id" \in DOMAIN post /\ Strip(post["station_id"]) # ""

\* the rows equal to r but for the timestamp
Same(rows, r) ==
    {i \in DOMAIN rows : /\ rows[i].nrel_station_id = r.nrel_station_id
                         /\ rows[i].status = r.status
                         /\ rows[i].user = r.user}

\* this step answers 200 with the status echoed and appends one row with
\* station identifier sid, the POST's status and the POST's user
Accepted(sid) ==
    /\ response'.status_code = 200
    /\ response'.json = [success |-> TRUE, status |-> request.post["status"]]
    /\ Len(store') = Len(store) + 1
    /\ SubSeq(store', 1, Len(store)) = store
    /\ store'[Len(store')].nrel_station_id = sid
    /\ store'[Len(store')].status = request.post["status"]
    /\ store'[Len(store')].user = request.user

\* C3 as claimed: an authenticated POST with a station_id (read here as one
\* that is not blank) and a valid status is answered 200 with the status
\* echoed and adds exactly one row, whose station identifier is exactly the
\* submitted station_id.
C3_AcceptedExactId ==
    [][(SubmitServed /\ request.user # Anonymous /\ StatusGiven(request.post)
                     /\ StationIdNotBlank(request.post))
          => Accepted(request.post["station_id"])]_vars

\* C3 as amended: an authenticated POST with a valid status and a station_id
\* that is not blank is answered 200 with the status echoed and adds exactly
\* one row, whose station identifier is the submitted station_id with its
\* leading and trailing whitespace stripped, whose status is the submitted
\* status and whose user is the submitting user.
C3_AcceptedStrippedId ==
    [][(SubmitServed /\ request.user # Anonymous /\ StatusGiven(request.post)
                     /\ StationIdNotBlank(request.post))
          => Accepted(Strip(request.post["station_id"]))]_vars

\* bob's POST of ' 7 ' as Busy was accepted and stored as '7'
C3_Witness ==
    /\ request = [op |-> "submit_status", user |-> "bob",
                  post |-> [station_id |-> " 7 ", status |-> "Busy"]]
    /\ response # NoResponse
    /\ response.status_code = 200
    /\ store # <<>>
    /\ store[Len(store)].nrel_station_id = "7"
    /\ store[Len(store)].user = "bob"
    /\ store[Len(store)].status = "Busy"

\* C4: an unauthenticated POST, whatever its payload, is answered 403 (never
\* 200, never 400) and leaves the status store unchanged.
C4_AnonymousForbidden ==
    [][(SubmitServed /\ request.user = Anonymous)
          => (response'.status_code = 403 /\ response'.json.success = FALSE
              /\ store' = store)]_vars

\* anonymous POSTs got 403, one with a valid payload, one with a bad status
C4_Witness ==
    /\ request.op = "submit_status"
    /\ request.user = Anonymous
    /\ response # NoResponse
    /\ response.status_code = 403
    /\ request.post = [station_id |-> "7", status |-> "InvalidStatus"]
    /\ store # <<>>

\* C5: an authenticated POST whose status is not one of the three choices, or
\* whose station_id is missing or empty, is answered 400 with success false
\* and creates no row.
C5_InvalidRejected ==
    [][(SubmitServed /\ request.user # Anonymous
          /\ (~StatusGiven(request.post) \/ ~StationIdGiven(request.post)))
          => (response'.status_code = 400 /\ response'.json.success = FALSE
              /\ store' = store)]_vars

\* alice's POST with an unknown status was answered 400 naming the status field
C5_Witness ==
    /\ request = [op |-> "submit_status", user |-> "alice",
                  post |-> [station_id |-> "7", status |-> "InvalidStatus"]]
    /\ response # NoResponse
    /\ response.status_code = 400
    /\ response.json.errors = {"status"}

\* C6: every valid submission of an authenticated user adds one more row with
\* its station identifier, status and user to those already stored, whether
\* or not rows identical to it are already there; no other row is touched.
C6_NotIdempotent ==
    [][(SubmitServed /\ response'.status_code = 200)
          => LET r == [nrel_station_id |-> CleanStationId(request.post),
                       status |-> CleanStatus(request.post), user |-> request.user]
             IN  /\ Cardinality(Same(store', r)) = Cardinality(Same(store, r)) + 1
                 /\ Len(store') = Len(store) + 1
                 /\ \A i \in DOMAIN store : store'[i] = store[i]]_vars

\* the same submission made MaxSubmissions times is stored MaxSubmissions times
C6_Witness ==
    /\ Len(store) = MaxSubmissions
    /\ response # NoResponse
    /\ \A i \in DOMAIN store :
          /\ store[i].nrel_station_id = "7"
          /\ store[i].status = "Working"
          /\ store[i].user = "alice"
    /\ request.post = [station_id |-> "7", status |-> "Working"]

(***************************************************************************)
(* Properties of the reconciliation (checked under Spec)                   *)
(***************************************************************************)
\* the rows stored for station identifier sid
RowsOf(sid) == {i \in DOMAIN store : store[i].nrel_station_id = sid}

\* the rows of sid have pairwise distinct timestamps
DistinctTimestamps(sid) ==
    \A i, j \in RowsOf(sid) : store[i].updated_at = store[j].updated_at => i = j

\* the row of sid with the greatest timestamp
LatestRow(sid) ==
    CHOOSE i \in RowsOf(sid) : \A j \in RowsOf(sid) : store[j].updated_at <= store[i].updated_at

\* a station search was answered with stations listed
SearchListed ==
    /\ request.op = "station_list"
    /\ response # NoResponse
    /\ response.status_code = 200
    /\ response.context.paginator.object_list # <<>>

\* C2: every listed station whose identifier has one or more stored rows, at
\* pairwise distinct timestamps, carries as local_status the status of its row
\* with the greatest timestamp, whatever else the store holds.
C2_LatestStatusAttached ==
    SearchListed =>
        \A k \in DOMAIN response.context.paginator.object_list :
            LET station == response.context.paginator.object_list[k]
                sid == StationId(station)
            IN  (RowsOf(sid) # {} /\ DistinctTimestamps(sid))
                    => station["local_status"] = JStr(store[LatestRow(sid)].status)

(***************************************************************************)
(* Properties of a get_stations call the API answered (under SpecStations) *)
(***************************************************************************)
\* the call got as far as a 2xx answer whose body is a JSON object that
\* lists stations
ApiSucceeded(env) ==
    /\ ~NoApiKey(env)
    /\ env.geo.kind = "found"
    /\ env.http.kind = "response"
    /\ env.http.status_code \in 200..299
    /\ env.http.body.t = "object"
    /\ "fuel_stations" \in DOMAIN env.http.body.v

\* the record has a DC-fast port count and it is above zero
PositiveCount(s) ==
    /\ "ev_dc_fast_num" \in DOMAIN s
    /\ s["ev_dc_fast_num"].t = "num"
    /\ s["ev_dc_fast_num"].v > 0

\* the places in the response of the records whose port count is above zero
PositivePlaces(stations) == {i \in DOMAIN stations : PositiveCount(stations[i])}

\* the k-th smallest member of the set of places P
KthPlace(P, k) == CHOOSE i \in P : Cardinality({j \in P : j <= i}) = k

\* record r is record s with max_power_kw added and nothing else changed
AnnotatedFrom(r, s) ==
    /\ DOMAIN r = DOMAIN s \cup {"max_power_kw"}
    /\ \A k \in DOMAIN s \ {"max_power_kw"} : r[k] = s[k]
    /\ extract_max_power(s) = Returned(r["max_power_kw"])

\* C11: on a successful API call get_stations returns exactly the records of
\* the response whose DC-fast port count is above zero, in the response's
\* order, each with max_power_kw equal to extract_max_power of the record.
C11_PositiveCountKept ==
    (StationsDone /\ ApiSucceeded(request.env)) =>
        LET sent == request.env.http.body.v["fuel_stations"]
            P == PositivePlaces(sent)
        IN  /\ response.r.raised = FALSE
            /\ Len(response.r.value) = Cardinality(P)
            /\ \A k \in 1..Cardinality(P) :
                  AnnotatedFrom(response.r.value[k], sent[KthPlace(P, k)])

\* the same, for the responses whose records all have a number (or nothing)
\* as port count and a string (or nothing) as network
C11_PositiveCountKeptWellFormed ==
    (StationsDone /\ ApiSucceeded(request.env)
        /\ \A i \in DOMAIN request.env.http.body.v["fuel_stations"] :
              LET s == request.env.http.body.v["fuel_stations"][i]
              IN  /\ Get(s, "ev_dc_fast_num", JNum(0)).t = "num"
                  /\ Get(s, "ev_network", JStr("")).t = "str") =>
        LET sent == request.env.http.body.v["fuel_stations"]
            P == PositivePlaces(sent)
        IN  /\ response.r.raised = FALSE
            /\ Len(response.r.value) = Cardinality(P)
            /\ \A k \in 1..Cardinality(P) :
                  AnnotatedFrom(response.r.value[k], sent[KthPlace(P, k)])

\* a response of a record without DC-fast ports followed by the Tesla
\* station came back as the Tesla station alone, at 250 kW
C11_DroppedAndKept ==
    /\ StationsDone
    /\ ApiSucceeded(request.env)
    /\ request.env.http.body.v["fuel_stations"] = <<NoFast3, Tesla1>>
    /\ response.r.raised = FALSE
    /\ Len(response.r.value) = 1
    /\ response.r.value[1]["id"] = JNum(1)
    /\ response.r.value[1]["max_power_kw"] = JNum(2500)

\* C12: without an API credential (absent, None or empty) get_stations
\* returns the empty list and makes no call at all, neither to the geocoder
\* nor to the station-finder endpoint.
C12_NoKeyNoNetwork ==
    (StationsDone /\ request.env.api_key \in {JNull, JStr("")}) =>
        /\ response.r = Returned(<<>>)
        /\ response.calls = <<>>

\* an empty credential, in a world where the geocoder and the API would both
\* have answered
C12_Witness ==
    /\ StationsDone
    /\ request.env.api_key = JStr("")
    /\ request.env.geo.kind = "found"
    /\ request.env.http.kind = "response"
    /\ request.env.http.status_code = 200
    /\ request.env.http.body = JObject([fuel_stations |-> <<Tesla1>>])
    /\ response.r = Returned(<<>>)
    /\ response.calls = <<>>

(***************************************************************************)
(* Properties of local_status (checked under Spec)                         *)
(***************************************************************************)
\* C13: a listed station's local_status is none exactly when the store holds
\* no row with the station's identifier, and otherwise it is the status of a
\* stored row with that same identifier.
C13_LocalStatusOfOwnRows ==
    SearchListed =>
        \A k \in DOMAIN response.context.paginator.object_list :
            LET station == response.context.paginator.object_list[k]
                sid == StationId(station)
            IN  /\ station["local_status"] = JNull <=> RowsOf(sid) = {}
                /\ station["local_status"] # JNull =>
                      \E i \in RowsOf(sid) : station["local_status"] = JStr(store[i].status)

\* stations 1 and 2 are listed; station 2 has an older row than station 1
\* and shows its own status, Broken, while station 1 shows Working
C13_Witness ==
    /\ SearchListed
    /\ Len(response.context.paginator.object_list) = 2
    /\ Len(store) = 2
    /\ store[1].nrel_station_id = "2" /\ store[1].status = "Broken"
    /\ store[2].nrel_station_id = "1" /\ store[2].status = "Working"
    /\ store[1].updated_at < store[2].updated_at
    /\ response.context.paginator.object_list[1]["local_status"] = JStr("Working")
    /\ response.context.paginator.object_list[2]["local_status"] = JStr("Broken")

\* station 2 is listed without a report while station 1 has one
C13_WitnessNone ==
    /\ SearchListed
    /\ Len(response.context.paginator.object_list) = 2
    /\ RowsOf("2") = {} /\ RowsOf("1") # {}
    /\ response.context.paginator.object_list[2]["local_status"] = JNull
    /\ response.context.paginator.object_list[1]["local_status"] # JNull

(***************************************************************************)
(* The station list view alone, over every shape of GET and every kind of  *)
(* outside world, the table empty                                          *)
(***************************************************************************)
MaxFound == 25

\* the i-th of the stations a long answer of the API lists
FoundStation(i) ==
    [id |-> JNum(100 + i), station_name |-> JStr("Station"),
     ev_network |-> JStr("EVgo Network"), ev_dc_fast_num |-> JNum(1)]

FoundStations(n) == [i \in 1..n |-> FoundStation(i)]

\* the page parameters asked with: the text sent (Absent for none) and the
\* integer it denotes, if it denotes one
PageParams ==
    { [raw |-> Absent, integer |-> FALSE],
      [raw |-> JStr(""), integer |-> FALSE],
      [raw |-> JStr("abc"), integer |-> FALSE],
      [raw |-> JStr("2.5"), integer |-> FALSE],
      [raw |-> JStr("1"), integer |-> TRUE, n |-> 1],
      [raw |-> JStr("2"), integer |-> TRUE, n |-> 2],
      [raw |-> JStr("3"), integer |-> TRUE, n |-> 3],
      [raw |-> JStr("4"), integer |-> TRUE, n |-> 4],
      [raw |-> JStr("99"), integer |-> TRUE, n |-> 99],
      [raw |-> JStr("0"), integer |-> TRUE, n |-> 0],
      [raw |-> JStr("-1"), integer |-> TRUE, n |-> -1] }

SearchTypeInputs == {Absent, JStr("zip"), JStr("city"), JStr("bogus")}

ZipCodeInputs == {Absent, JStr(""), JStr("79101"), JStr(" 79101 "), JStr("123")}

CityStateInputs == {Absent, JStr("Amarillo, TX"), JStr("  ")}

\* a query string: the keys whose input is not Absent, with their strings
Query(t, z, c, p) ==
    LET f == [search_type |-> t, zip_code |-> z, city_state |-> c, page |-> p]
    IN  [k \in {j \in DOMAIN f : f[j] # Absent} |-> f[k].v]

\* the queries asked: every shape of form without a page parameter, and a
\* zip search, a city search and a search without zip code with every one
ViewQueries ==
    {Query(t, z, c, Absent) :
        t \in SearchTypeInputs, z \in ZipCodeInputs, c \in CityStateInputs}
      \cup {Query(JStr("zip"), JStr("79101"), Absent, p.raw) : p \in PageParams}
      \cup {Query(JStr("city"), Absent, JStr("Amarillo, TX"), p.raw) : p \in PageParams}
      \cup {Query(JStr("zip"), Absent, Absent, p.raw) : p \in PageParams}

\* the outside worlds of a search: the API lists 0..MaxFound stations, or a
\* record it cannot handle, or answers with a JSON array; or the GET times
\* out, the location is unknown, the geocoder times out or is unavailable,
\* or no credential is configured
ViewEnvs ==
    {ApiAnswers(FoundStations(n)) : n \in 0..MaxFound}
        \cup { ApiAnswers(<<NullNetwork5>>),
               ApiTimesOut,
               [api_key |-> JStr("KEY"), geo |-> [kind |-> "found", lat |-> 35, lon |-> -101],
                http |-> [kind |-> "response", status_code |-> 200, body |-> JList(<<>>)]],
               [api_key |-> JStr("KEY"), geo |-> [kind |-> "not_found"],
                http |-> [kind |-> "timeout"]],
               [api_key |-> JStr("KEY"), geo |-> [kind |-> "timeout"],
                http |-> [kind |-> "response", status_code |-> 200,
                          body |-> JObject([fuel_stations |-> <<Tesla1>>])]],
               [api_key |-> JStr("KEY"),
                geo |-> [kind |-> "service_error", exc |-> "GeocoderUnavailable"],
                http |-> [kind |-> "response", status_code |-> 200,
                          body |-> JObject([fuel_stations |-> <<Tesla1>>])]],
               [api_key |-> JNull, geo |-> [kind |-> "not_found"],
                http |-> [kind |-> "timeout"]] }

InitView ==
    /\ store = <<>>
    /\ request \in {[op |-> "station_list", get |-> g, env |-> e] :
                      g \in ViewQueries, e \in ViewEnvs}
    /\ response = NoResponse
    /\ cache = NoCache
    /\ clock = 0
    /\ inflight = NoWorkers

NextView == ServeSearch

SpecView == InitView /\ [][NextView]_vars

(***************************************************************************)
(* Properties of the station list view (checked under SpecView)            *)
(***************************************************************************)
\* a GET of stations/ has been answered
ViewServed == request.op = "station_list" /\ response # NoResponse

\* the view got to its pagination: get_stations, if called, returned a list
Paginated == ViewServed /\ "context" \in DOMAIN response

\* the page parameter of the query, as text and as the integer it denotes
PageAsked(get) ==
    CHOOSE p \in PageParams :
        p.raw = IF "page" \in DOMAIN get THEN JStr(get["page"]) ELSE Absent

\* the number of pages of n stations at 10 a page; no stations make one page
PagesOf(n) == IF n = 0 THEN 1 ELSE ((n - 1) \div 10) + 1

\* page number k of the list all: its stations 10(k-1)+1 .. 10k, as far as
\* there are any
IsPage(shown, all, k) ==
    /\ shown.number = k
    /\ Len(shown.object_list) = Min(10, Len(all) - 10 * (k - 1))
    /\ \A j \in 1..Len(shown.object_list) : shown.object_list[j] = all[10 * (k - 1) + j]

\* C14: pages hold at most 10 stations; a page parameter that is missing or
\* no integer gives page 1, one beyond the last page gives the last page, one
\* within range that page; whatever the page parameter, the answer is a 200.
C14_Pagination ==
    Paginated =>
        LET all == response.context.paginator.object_list
            shown == response.context.page_obj
            asked == PageAsked(request.get)
        IN  /\ response.status_code = 200
            /\ Len(shown.object_list) <= 10
            /\ ~asked.integer => IsPage(shown, all, 1)
            /\ (asked.integer /\ asked.n > PagesOf(Len(all))) =>
                  IsPage(shown, all, PagesOf(Len(all)))
            /\ (asked.integer /\ asked.n >= 1 /\ asked.n <= PagesOf(Len(all))) =>
                  IsPage(shown, all, asked.n)

\* page 99 of 25 stations is page 3, with the last five of them
C14_Witness ==
    /\ Paginated
    /\ PageAsked(request.get).raw = JStr("99")
    /\ Len(response.context.paginator.object_list) = 25
    /\ response.context.page_obj.number = 3
    /\ Len(response.context.page_obj.object_list) = 5
    /\ response.context.page_obj.object_list[1]["id"] = JNum(121)

\* page 'abc' of 25 stations is page 1, with the first ten of them
C14_WitnessNotInteger ==
    /\ Paginated
    /\ PageAsked(request.get).raw = JStr("abc")
    /\ Len(response.context.paginator.object_list) = 25
    /\ response.context.page_obj.number = 1
    /\ Len(response.context.page_obj.object_list) = 10

(***************************************************************************)
(* Properties of the context of a search that found stations (under Spec)  *)
(***************************************************************************)
\* C15: after a valid search for which get_stations returned records, the
\* context has an entry 'stations' holding the returned records, each with
\* its local_status.
C15_StationsInContext ==
    SearchListed =>
        /\ "stations" \in DOMAIN response.context
        /\ response.context["stations"] = response.context.paginator.object_list
        /\ \A k \in DOMAIN response.context["stations"] :
              "local_status" \in DOMAIN response.context["stations"][k]

\* what the context does hold after such a search: no 'stations'; the
\* records with their local_status are the paginator's object_list
C15_StationsInPaginatorOnly ==
    SearchListed =>
        /\ "stations" \notin DOMAIN response.context
        /\ "paginator" \in DOMAIN response.context
        /\ \A k \in DOMAIN response.context.paginator.object_list :
              "local_status" \in DOMAIN response.context.paginator.object_list[k]

\* the text the query carries for field, without the blanks around it
TextOf(get, field) == IF field \in DOMAIN get THEN Strip(get[field]) ELSE ""

\* the query has no text for field, or only blanks
Missing(get, field) == TextOf(get, field) = ""

\* get_stations was not called, nothing was sent to the geocoder or the API,
\* and the answer is a 200 with an invalid form and an empty page
NotSearched ==
    /\ response.get_stations_calls = <<>>
    /\ response.calls = <<>>
    /\ response.status_code = 200
    /\ response.context.form.is_valid = FALSE
    /\ response.context.page_obj.object_list = <<>>
    /\ response.context.paginator.object_list = <<>>

\* C16: the view calls get_stations exactly once when the form is valid, with
\* the zip code for a zip search and the city/state text for a city search;
\* when the form is invalid (a zip search without zip code and a city search
\* without city/state among the cases) it does not call it, and answers 200
\* with an invalid form and an empty page.
C16_ClientCalledOnceIfValid ==
    ViewServed =>
        LET get == request.get
            type == Get(get, "search_type", "")
        IN  /\ SearchFormValid(get) =>
                  response.get_stations_calls =
                      <<IF type = "zip" THEN TextOf(get, "zip_code")
                        ELSE TextOf(get, "city_state")>>
            /\ ~SearchFormValid(get) => NotSearched
            /\ (type = "zip" /\ Missing(get, "zip_code")) => NotSearched
            /\ (type = "city" /\ Missing(get, "city_state")) => NotSearched

\* a city search that also carries a zip code asks for the city, once
C16_Witness ==
    /\ ViewServed
    /\ request.get = [search_type |-> "city", zip_code |-> "79101",
                      city_state |-> "Amarillo, TX"]
    /\ response.get_stations_calls = <<"Amarillo, TX">>
    /\ response.calls # <<>>
    /\ response.calls[1] = [call |-> "geocode", query |-> "Amarillo, TX, USA"]

\* a zip search that carries a city but no zip code is not searched
C16_WitnessInvalid ==
    /\ ViewServed
    /\ request.get = [search_type |-> "zip", city_state |-> "Amarillo, TX"]
    /\ request.env = ApiAnswers(FoundStations(MaxFound))
    /\ NotSearched

\* the query is a valid one with a location to look for
ValidQuery(get) ==
    /\ SearchFormValid(get)
    /\ TextOf(get, IF get["search_type"] = "zip" THEN "zip_code" ELSE "city_state") # ""

\* C17: the advisory message is set exactly when a valid, non-empty query
\* returned no stations, for nothing matching or for an upstream failure; it
\* is none when stations were returned or no valid query was made; and the
\* answer is a 200 in every case.
C17_AdvisoryAndNoServerError ==
    ViewServed =>
        /\ response.status_code = 200
        /\ response.context.error_message # JNull <=>
              (ValidQuery(request.get) /\ response.context.paginator.object_list = <<>>)

\* the same for the answers that are a 200: the advisory message is set
\* exactly when a valid query returned no stations
C17_AdvisoryWhenAnswered ==
    (ViewServed /\ response.status_code = 200) =>
        (response.context.error_message # JNull <=>
            (ValidQuery(request.get) /\ response.context.paginator.object_list = <<>>))

\* a server error: the API answered 200 with a body that is a JSON array
C17_ServerErrorSeen ==
    /\ ViewServed
    /\ response.status_code = 500
    /\ request.env.http.kind = "response"
    /\ request.env.http.body = JList(<<>>)

(***************************************************************************)
(* geocode_zip applied to one location text in one state of the provider   *)
(***************************************************************************)
GeocodeTexts == {"79101", "00000", "Amarillo, TX", "Paris, TX", "Nowhere, ZZ", ""}

Latitudes == {35, 0, -34}

Longitudes == {-101, 0, 151}

\* what the provider can do with one query
ProviderOutcomes ==
    {[kind |-> "timeout"], [kind |-> "not_found"]}
        \cup {[kind |-> "service_error", exc |-> e] :
                e \in GeocoderServiceErrors \ {"GeocoderTimedOut"}}
        \cup {[kind |-> "found", lat |-> la, lon |-> lo] :
                la \in Latitudes, lo \in Longitudes}

InitGeocode ==
    /\ store = <<>>
    /\ request \in {[op |-> "geocode_zip", zip_code |-> z, geo |-> g] :
                      z \in GeocodeTexts, g \in ProviderOutcomes}
    /\ response = NoResponse
    /\ cache = NoCache
    /\ clock = 0
    /\ inflight = NoWorkers

GeocodeZip ==
    /\ request.op = "geocode_zip"
    /\ response = NoResponse
    /\ response' = [r |-> geocode_zip(request.zip_code, request.geo),
                    queries |-> ProviderQueries(request.zip_code)]
    /\ UNCHANGED <<store, request, cache, clock, inflight>>

NextGeocode == GeocodeZip

SpecGeocode == InitGeocode /\ [][NextGeocode]_vars

(***************************************************************************)
(* Properties of geocode_zip (checked under SpecGeocode)                   *)
(***************************************************************************)
GeocodeDone == request.op = "geocode_zip" /\ response # NoResponse

\* C18: geocode_zip never raises: it returns (None, None) on a provider
\* timeout, a provider service error and a query the provider cannot resolve,
\* and the provider's (latitude, longitude) otherwise; it queries the
\* provider at most once.
C18_GeocodeNeverRaises ==
    GeocodeDone =>
        /\ response.r.raised = FALSE
        /\ request.geo.kind \in {"timeout", "service_error", "not_found"} =>
              response.r.value = <<JNull, JNull>>
        /\ request.geo.kind = "found" =>
              response.r.value = <<JNum(request.geo.lat), JNum(request.geo.lon)>>
        /\ Len(response.queries) <= 1

\* the provider was unavailable: (None, None) after one query
C18_Witness ==
    /\ GeocodeDone
    /\ request.geo = [kind |-> "service_error", exc |-> "GeocoderUnavailable"]
    /\ request.zip_code = "79101"
    /\ response.r = Returned(<<JNull, JNull>>)
    /\ response.queries = <<"79101, USA">>

\* a place on the equator and the prime meridian is returned as it is
C18_WitnessZero ==
    /\ GeocodeDone
    /\ request.geo = [kind |-> "found", lat |-> 0, lon |-> 0]
    /\ response.r = Returned(<<JNum(0), JNum(0)>>)

(***************************************************************************)
(* Properties of the status store over the site's operations (under Spec)  *)
(***************************************************************************)
\* this step serves the pending GET of stations/
SearchServed ==
    request.op = "station_list" /\ response = NoResponse /\ response' # NoResponse

\* C19: serving a station-list request leaves the stored rows as they were,
\* whatever the form input, the client's result and the page parameter; the
\* store changes only in a step of the submission endpoint.
C19_SearchReadOnly ==
    [][/\ SearchServed => store' = store
       /\ store' # store => SubmitServed]_vars

\* a search listing station 1 was served while the store held two rows of
\* station 1 and one of station 2, and showed a status from the store
C19_Witness ==
    /\ SearchListed
    /\ Len(store) = 3
    /\ Cardinality(RowsOf("1")) = 2
    /\ Cardinality(RowsOf("2")) = 1
    /\ \E k \in DOMAIN response.context.paginator.object_list :
          /\ response.context.paginator.object_list[k]["id"] = JNum(1)
          /\ response.context.paginator.object_list[k]["local_status"] # JNull

\* C20: the store is append-only under searches, valid submissions and
\* rejected submissions: a stored row keeps its station identifier, status,
\* user and timestamp for good, the number of rows never goes down, and it
\* goes up, by exactly one, in the steps that accept a submission.
C20_AppendOnly ==
    [][/\ Len(store') >= Len(store)
       /\ \A i \in DOMAIN store : store'[i] = store[i]
       /\ (SubmitServed /\ response'.status_code = 200) => Len(store') = Len(store) + 1
       /\ ~(SubmitServed /\ response'.status_code = 200) => Len(store') = Len(store)]_vars

\* station 1 was reported Working and later Broken, and both rows are there
\* as they were stored after a submission that was rejected
C20_Witness ==
    /\ Len(store) = 2
    /\ store[1].nrel_station_id = "1" /\ store[1].status = "Working" /\ store[1].updated_at = 0
    /\ store[2].nrel_station_id = "1" /\ store[2].status = "Broken" /\ store[2].updated_at = 1
    /\ request.op = "submit_status"
    /\ response # NoResponse
    /\ response.status_code = 400

(***************************************************************************)
(* Properties of the calls a station-list request makes (under SpecView)   *)
(***************************************************************************)
\* the places in the request's call list of the calls of one kind
CallsOf(kind) == {i \in DOMAIN response.calls : response.calls[i].call = kind}

\* C21: a station-list request makes at most one geocode call and at most one
\* GET of the station finder; a GET comes after the geocode call, only when
\* the geocoder gave both coordinates, and carries them; when geocoding
\* fails there is no GET.
C21_GeocodeThenGet ==
    ViewServed =>
        /\ Cardinality(CallsOf("geocode")) <= 1
        /\ Cardinality(CallsOf("GET")) <= 1
        /\ Len(response.calls) = Cardinality(CallsOf("geocode")) + Cardinality(CallsOf("GET"))
        /\ \A i \in CallsOf("GET") :
              /\ \E j \in CallsOf("geocode") : j < i
              /\ request.env.geo.kind = "found"
              /\ response.calls[i].params.latitude = request.env.geo.lat
              /\ response.calls[i].params.longitude = request.env.geo.lon
        /\ request.env.geo.kind # "found" => CallsOf("GET") = {}

\* the geocoder timed out on a zip search the API would have answered: one
\* geocode call and no GET
C21_Witness ==
    /\ ViewServed
    /\ request.get = [search_type |-> "zip", zip_code |-> "79101"]
    /\ request.env.geo.kind = "timeout"
    /\ request.env.http.kind = "response"
    /\ response.calls = <<[call |-> "geocode", query |-> "79101, USA"]>>
    /\ response.status_code = 200

\* a city search made both calls, the GET second and with the coordinates of
\* the geocoder
C21_WitnessBoth ==
    /\ ViewServed
    /\ request.env.geo = [kind |-> "found", lat |-> 35, lon |-> -101]
    /\ Len(response.calls) = 2
    /\ response.calls[1] = [call |-> "geocode", query |-> "Amarillo, TX, USA"]
    /\ response.calls[2].call = "GET"
    /\ response.calls[2].params.latitude = 35
    /\ response.calls[2].params.longitude = -101

(***************************************************************************)
(* Last write wins (checked under Spec, where no answer comes from a cache)*)
(***************************************************************************)
\* the row of the most recent accepted submission for sid: rows are stored
\* in the order the submissions were accepted
LastSubmitted(sid) == CHOOSE i \in RowsOf(sid) : \A j \in RowsOf(sid) : j <= i

\* C22: after any sequence of accepted submissions, a search computed afresh
\* that lists station S attaches to S the status of the most recent accepted
\* submission for S.
C22_LastWriteWins ==
    SearchListed =>
        \A k \in DOMAIN response.context.paginator.object_list :
            LET station == response.context.paginator.object_list[k]
                sid == StationId(station)
            IN  RowsOf(sid) # {} =>
                    station["local_status"] = JStr(store[LastSubmitted(sid)].status)

\* the same, for the stores in which no two rows carry the same timestamp
C22_LastWriteWinsDistinctTimes ==
    (SearchListed /\ \A i, j \in DOMAIN store :
                        store[i].updated_at = store[j].updated_at => i = j) =>
        \A k \in DOMAIN response.context.paginator.object_list :
            LET station == response.context.paginator.object_list[k]
                sid == StationId(station)
            IN  RowsOf(sid) # {} =>
                    station["local_status"] = JStr(store[LastSubmitted(sid)].status)

\* station 1 reported Working and then Broken at different times, nothing
\* else stored: the search shows Broken
C22_LatestShown ==
    /\ SearchListed
    /\ Len(store) = 2
    /\ RowsOf("1") = {1, 2}
    /\ store[1].status = "Working" /\ store[2].status = "Broken"
    /\ store[1].updated_at < store[2].updated_at
    /\ response.context.paginator.object_list[1]["id"] = JNum(1)
    /\ response.context.paginator.object_list[1]["local_status"] = JStr("Broken")

(***************************************************************************)
(* get_stations on the 2xx answers that are JSON (under SpecStations)      *)
(***************************************************************************)
\* the call got a 2xx answer whose body parses as JSON
JsonAnswered(env) ==
    /\ ~NoApiKey(env)
    /\ env.geo.kind = "found"
    /\ env.http.kind = "response"
    /\ env.http.status_code \in 200..299
    /\ env.http.body # NotJson

\* the record has no DC-fast port count: no key, or a key holding null
WithoutCount(s) == "ev_dc_fast_num" \notin DOMAIN s \/ s["ev_dc_fast_num"] = JNull

\* the record has no network name: no key, or a key holding null
WithoutNetwork(s) == "ev_network" \notin DOMAIN s \/ s["ev_network"] = JNull

\* the stations the body lists, none when the body is no object or has no
\* station list
Listed(body) ==
    IF body.t = "object" /\ "fuel_stations" \in DOMAIN body.v
    THEN body.v["fuel_stations"] ELSE <<>>

\* C27: for every 2xx answer whose body is JSON get_stations returns a list
\* and raises nothing: the empty list for a body without a station list, no
\* record without a DC-fast port count, and the generic 50 kW on every
\* record without a network name and without an explicit power.
C27_JsonAnswerNeverRaises ==
    (StationsDone /\ JsonAnswered(request.env)) =>
        LET sent == Listed(request.env.http.body)
        IN  /\ response.r.raised = FALSE
            /\ sent = <<>> => response.r.value = <<>>
            /\ \A k \in DOMAIN response.r.value :
                  ~WithoutCount(response.r.value[k])
            /\ \A i \in DOMAIN sent :
                  (PositiveCount(sent[i]) /\ WithoutNetwork(sent[i])
                        /\ ~ExplicitPresentNonZero(sent[i])) =>
                      \E k \in DOMAIN response.r.value :
                          /\ response.r.value[k]["id"] = sent[i]["id"]
                          /\ response.r.value[k]["max_power_kw"] = JNum(500)

\* the same, for the answers that are a JSON object whose records hold no
\* null where a number or a string is looked for
C27_NeverRaisesWithoutNulls ==
    (StationsDone /\ JsonAnswered(request.env) /\ request.env.http.body.t = "object"
        /\ \A i \in DOMAIN Listed(request.env.http.body) :
              LET s == Listed(request.env.http.body)[i]
              IN  /\ Get(s, "ev_dc_fast_num", JNum(0)) # JNull
                  /\ Get(s, "ev_network", JStr("")) # JNull) =>
        LET sent == Listed(request.env.http.body)
        IN  /\ response.r.raised = FALSE
            /\ sent = <<>> => response.r.value = <<>>
            /\ \A k \in DOMAIN response.r.value :
                  ~WithoutCount(response.r.value[k])
            /\ \A i \in DOMAIN sent :
                  (PositiveCount(sent[i]) /\ WithoutNetwork(sent[i])
                        /\ ~ExplicitPresentNonZero(sent[i])) =>
                      \E k \in DOMAIN response.r.value :
                          /\ response.r.value[k]["id"] = sent[i]["id"]
                          /\ response.r.value[k]["max_power_kw"] = JNum(500)

\* a record without the network key came back at 50 kW, the record without
\* a port count before it left out
C27_DefaultsSeen ==
    /\ StationsDone
    /\ JsonAnswered(request.env)
    /\ Listed(request.env.http.body) = <<NoCount4, NoNetwork7>>
    /\ response.r.raised = FALSE
    /\ Len(response.r.value) = 1
    /\ response.r.value[1]["id"] = JNum(7)
    /\ response.r.value[1]["max_power_kw"] = JNum(500)

(***************************************************************************)
(* views.py 208-210: the station list behind cache_page(60 * 15) and       *)
(* vary_on_cookie.  cache_page is outermost, so the response it sees       *)
(* carries Vary: Cookie.  The cache is one process-wide store that evicts  *)
(* by expiry only.  A GET carries its Cookie header ('' for none) and its  *)
(* query string, a sequence of <<name, value>> pairs.                      *)
(***************************************************************************)
CACHE_TIMEOUT == 900

RECURSIVE QueryDict(_)
\* request.GET of a query string: the last value of a name is the one read
QueryDict(query) ==
    IF query = <<>> THEN EmptyQuery
    ELSE LET before == QueryDict(SubSeq(query, 1, Len(query) - 1))
             pair == query[Len(query)]
         IN  [k \in DOMAIN before \cup {pair[1]} |->
                 IF k = pair[1] THEN pair[2] ELSE before[k]]

\* CacheKey of a view without vary_on_cookie: the URL alone
CacheKey_queryOnly(cookie, query) == [url |-> query, cookie |-> ""]

\* views.py 208-209: the key of a GET in the cache: the URL with its query
\* string, and the value of each header the response varies on, the Cookie
\* header
CacheKey(cookie, query) == [url |-> query, cookie |-> cookie]

\* the cache holds a page under key that has not expired at now: an entry
\* is gone as soon as its expiry time is reached
CacheHit(entries, key, now) == key \in DOMAIN entries /\ now < entries[key].expires

\* cache.get on a miss: an entry found expired is deleted
Expire(entries, key) == [k \in DOMAIN entries \ {key} |-> entries[k]]

\* views.py 208: cache_page's process_response.  A page is stored for
\* CACHE_TIMEOUT seconds when its status is 200, unless it sets a cookie in
\* answer to a request without cookies
UpdateCache(entries, key, page, cookie, sets_cookie, now) ==
    IF page.status_code # 200 \/ (cookie = "" /\ sets_cookie) THEN entries
    ELSE [k \in DOMAIN entries \cup {key} |->
             IF k = key THEN [page |-> page, expires |-> now + CACHE_TIMEOUT]
             ELSE entries[k]]

\* views.py 242-255: the number of queries the view makes of the status
\* store: two when there are stations to merge
StatusQueries(get, env) ==
    LET got == ViewStations(get, env)
    IN  IF got.r.raised \/ got.r.value = <<>> THEN 0 ELSE 2

\* views.py 210-276: the page the view renders now for a GET with this
\* Cookie header and query
Page(cookie, get, env, rows, order, now) ==
    LET made == ListResponse(get, env, rows, order)
    IN  IF made.status_code = 200
        THEN [status_code |-> 200, context |-> made.context,
              rendered_for |-> [cookie |-> cookie, get |-> get], rendered_at |-> now]
        ELSE [status_code |-> 500, exc |-> made.exc,
              rendered_for |-> [cookie |-> cookie, get |-> get], rendered_at |-> now]

\* views.py 208-276: the pending GET of stations/ goes through cache_page:
\* a page in the cache is sent as it is and the view does not run; else
\* the view runs and its page is offered to the cache
Dispatch(order, sets_cookie) ==
    /\ request.op = "dispatch"
    /\ response = NoResponse
    /\ LET key == CacheKey(request.cookie, request.query)
           get == QueryDict(request.query)
           made == ListResponse(get, request.env, store, order)
           page == Page(request.cookie, get, request.env, store, order, clock)
       IN  IF CacheHit(cache, key, clock)
           THEN /\ response' = [page |-> cache[key].page, hit |-> TRUE,
                                calls |-> <<>>, get_stations_calls |-> <<>>,
                                status_queries |-> 0, served_at |-> clock]
                /\ UNCHANGED <<store, cache>>
           ELSE /\ response' = [page |-> page, hit |-> FALSE,
                                calls |-> made.calls,
                                get_stations_calls |-> made.get_stations_calls,
                                status_queries |-> StatusQueries(get, request.env),
                                served_at |-> clock]
                /\ cache' = UpdateCache(Expire(cache, key), key, page,
                                        request.cookie, sets_cookie, clock)
                /\ store' = SearchStore(store, IF made.status_code = 200
                                               THEN made.context.paginator.object_list
                                               ELSE <<>>)
    /\ UNCHANGED <<request, clock, inflight>>

(***************************************************************************)
(* The site with its page cache: searches and submissions arrive one at a  *)
(* time, and time passes between them.                                     *)
(***************************************************************************)
MaxClock == 900

MaxPosts == 1

\* the seconds that pass in one step of the clock
Elapses == {450}

Cookies == {"", "sessionid=a", "sessionid=b"}

ZipQueryString == << <<"search_type", "zip">>, <<"zip_code", "79101">> >>

QueryStrings == {ZipQueryString, ZipQueryString \o << <<"page", "2">> >>}

\* the searches made of the cached site: one query by three sessions, and
\* one session asking also for another page, and when the API sends a
\* record that makes the view fail
CachedSearches ==
    {[cookie |-> c, query |-> ZipQueryString, env |-> ApiAnswers(<<Tesla1>>)] :
        c \in Cookies}
      \cup {[cookie |-> "sessionid=a", query |-> q, env |-> ApiAnswers(<<Tesla1>>)] :
               q \in QueryStrings}
      \cup {[cookie |-> "sessionid=a", query |-> ZipQueryString,
             env |-> ApiAnswers(<<NullNetwork5>>)]}

\* the submissions made to the cached site
CachedSubmissions ==
    {[user |-> "alice", post |-> [station_id |-> "1", status |-> "Broken"]]}

\* a GET of stations/ arrives with its Cookie header and query string
ReceiveDispatch(cookie, query, env) ==
    /\ Idle
    /\ request' = [op |-> "dispatch", cookie |-> cookie, query |-> query, env |-> env]
    /\ response' = NoResponse
    /\ UNCHANGED <<store, cache, clock, inflight>>

ServeDispatch ==
    /\ request.op = "dispatch"
    /\ \E order \in QueryOrders(ViewStatusRecords(QueryDict(request.query),
                                                  request.env, store)),
          sets_cookie \in BOOLEAN :
          Dispatch(order, sets_cookie)

\* the save of a submission is stamped with the time it is made at
ServeSubmitNow == SubmitStationStatus(clock)

Tick ==
    /\ \E d \in Elapses : clock + d <= MaxClock /\ clock' = clock + d
    /\ UNCHANGED <<store, request, response, cache, inflight>>

NextCache ==
    \/ \E search \in CachedSearches :
          ReceiveDispatch(search.cookie, search.query, search.env)
    \/ ServeDispatch
    \/ \E sub \in CachedSubmissions :
          Len(store) < MaxPosts /\ ReceiveSubmit(sub.user, sub.post)
    \/ ServeSubmitNow
    \/ Tick

SpecCache == Init /\ [][NextCache]_vars

(***************************************************************************)
(* Properties of the cached station list (checked under SpecCache)         *)
(***************************************************************************)
DispatchDone == request.op = "dispatch" /\ response # NoResponse

\* the status the page sent shows for its first station, JNull for none
ShownFirst(page) ==
    IF page.status_code = 200 /\ page.context.page_obj.object_list # <<>>
    THEN page.context.page_obj.object_list[1]["local_status"]
    ELSE JNull

\* C23: the cache is keyed by the cookie and the query parameters and
\* bounded to 15 minutes: the page a request is sent was rendered for a
\* request with the same Cookie header and the same query parameters, the
\* page parameter included, less than 15 minutes before.
C23_KeyedByCookieAndQuery ==
    DispatchDone =>
        /\ response.page.rendered_for.cookie = request.cookie
        /\ response.page.rendered_for.get = QueryDict(request.query)
        /\ response.served_at < response.page.rendered_at + CACHE_TIMEOUT

\* a page came out of the cache while the cache also held a live page of
\* another session for the same query, and a live page of the same session
\* for another query
C23_Witness ==
    /\ DispatchDone
    /\ response.hit
    /\ response.page.rendered_at < response.served_at
    /\ \E key \in DOMAIN cache :
          /\ key.url = request.query
          /\ key.cookie # request.cookie
          /\ response.served_at < cache[key].expires
    /\ \E key \in DOMAIN cache :
          /\ key.url # request.query
          /\ key.cookie = request.cookie
          /\ response.served_at < cache[key].expires

\* 15 minutes after the first page was stored, a page is rendered anew
C23_WitnessExpired ==
    /\ DispatchDone
    /\ ~response.hit
    /\ response.page.status_code = 200
    /\ response.page.rendered_at = CACHE_TIMEOUT
    /\ response.calls # <<>>

\* C24: nothing but time takes a page out of the cache: a page that has not
\* expired stays in the cache through every step, submissions included, and
\* a GET whose key has a page that has not expired is sent that page, with
\* no geocode call, no API call and no query of the status store.
C24_NoInvalidation ==
    [][/\ \A key \in DOMAIN cache :
             clock' < cache[key].expires =>
                 (key \in DOMAIN cache' /\ cache'[key] = cache[key])
       /\ (/\ request.op = "dispatch"
           /\ response = NoResponse
           /\ response' # NoResponse
           /\ CacheKey(request.cookie, request.query) \in DOMAIN cache
           /\ clock < cache[CacheKey(request.cookie, request.query)].expires) =>
              /\ response'.page = cache[CacheKey(request.cookie, request.query)].page
              /\ response'.calls = <<>>
              /\ response'.get_stations_calls = <<>>
              /\ response'.status_queries = 0]_vars

\* a search repeated after station 1 was reported Broken is sent the page
\* from before the report, on which station 1 has no status
C24_Witness ==
    /\ DispatchDone
    /\ response.hit
    /\ response.calls = <<>>
    /\ response.status_queries = 0
    /\ ShownFirst(response.page) = JNull
    /\ response.page.context.page_obj.object_list # <<>>
    /\ \E i \in DOMAIN store :
          /\ store[i].nrel_station_id = "1"
          /\ store[i].status = "Broken"
          /\ response.page.rendered_at < store[i].updated_at
          /\ store[i].updated_at <= response.served_at

\* once 15 minutes have passed the page is rendered anew and shows the report
C24_WitnessVisible ==
    /\ DispatchDone
    /\ ~response.hit
    /\ response.page.rendered_at = CACHE_TIMEOUT
    /\ response.status_queries = 2
    /\ ShownFirst(response.page) = JStr("Broken")

(***************************************************************************)
(* The site served by worker threads side by side.  inflight lists the     *)
(* requests in the order their handlers started, each with the place its   *)
(* handler has reached (pc) and the handler's local variables.  A handler  *)
(* is cut where it talks to the database: every statement sent to the      *)
(* database is one step of its own.                                        *)
(***************************************************************************)
MaxInflight == 3

\* inflight with the record of request w replaced
Moved(w, record) == [inflight EXCEPT ![w] = record]

\* views.py 278-296, models.py 60: a POST to stations/status/ is taken up
\* by a worker: dispatch and post up to the INSERT.  A request refused or
\* not valid is answered; for a valid one save() stamps updated_at with the
\* time it is now
PostPreSave(user, post) ==
    /\ Len(inflight) < MaxInflight
    /\ inflight' =
          IF ~IsAuthenticated(user)
          THEN Append(inflight, [op |-> "submit_status", pc |-> "done", user |-> user,
                                 post |-> post, response |-> handle_no_permission])
          ELSE IF ~IsValid(post)
          THEN Append(inflight, [op |-> "submit_status", pc |-> "done", user |-> user,
                                 post |-> post, response |-> PostResponse(post)])
          ELSE Append(inflight, [op |-> "submit_status", pc |-> "insert", user |-> user,
                                 post |-> post, now |-> clock])
    /\ UNCHANGED <<store, request, response, cache, clock>>

\* views.py 287-295: the INSERT of create(), and the answer
PostInsert(w) ==
    /\ inflight[w].op = "submit_status"
    /\ inflight[w].pc = "insert"
    /\ LET r == inflight[w]
       IN  /\ store' = PostStore(store, r.user, r.post, r.now)
           /\ inflight' = Moved(w, [op |-> r.op, pc |-> "done", user |-> r.user,
                                    post |-> r.post, now |-> r.now,
                                    response |-> PostResponse(r.post)])
    /\ cache' = CacheAfterPost(cache)
    /\ UNCHANGED <<request, response, clock>>

\* views.py 251-254 with latest_ids as line 248 left it: the rows (by
\* primary key) the second query finds in the table as it is now
StatusRecordsWith(rows, station_ids, latest_ids) ==
    {i \in DOMAIN rows :
        /\ rows[i].nrel_station_id \in station_ids
        /\ rows[i].updated_at \in {latest_ids[sid] : sid \in DOMAIN latest_ids}}

\* views.py 219-248: a GET of stations/ is taken up by a worker: the view
\* up to and with its first query of the status store, which the dict
\* comprehension of line 248 runs.  Without stations to merge there is no
\* query and the response is made at once
ListLatest(get, env) ==
    /\ Len(inflight) < MaxInflight
    /\ LET got == ViewStations(get, env)
       IN  inflight' =
             IF got.r.raised \/ got.r.value = <<>>
             THEN Append(inflight, [op |-> "station_list", pc |-> "done", get |-> get,
                                    env |-> env, latest_ids |-> LatestIds(<<>>, {}),
                                    response |-> ListResponse(get, env, store, <<>>)])
             ELSE Append(inflight, [op |-> "station_list", pc |-> "status_records",
                                    get |-> get, env |-> env,
                                    latest_ids |-> LatestIds(store, StationIds(got.r.value))])
    /\ UNCHANGED <<store, request, response, cache, clock>>

\* views.py 251-276: the second query, run by the iteration of line 255 on
\* the table as it is now, then the merge and the page
ListRecords(w, order) ==
    /\ inflight[w].op = "station_list"
    /\ inflight[w].pc = "status_records"
    /\ LET r == inflight[w]
       IN  inflight' = Moved(w, [op |-> r.op, pc |-> "done", get |-> r.get, env |-> r.env,
                                 latest_ids |-> r.latest_ids,
                                 response |-> ListResponse(r.get, r.env, store, order)])
    /\ UNCHANGED <<store, request, response, cache, clock>>

\* the submissions the workers get: user and POST body
WorkerSubmissions ==
    { [user |-> "alice", post |-> [station_id |-> "1", status |-> "Working"]],
      [user |-> "bob", post |-> [station_id |-> "1", status |-> "Broken"]],
      [user |-> "bob", post |-> [station_id |-> "2", status |-> "Working"]],
      [user |-> Anonymous, post |-> [station_id |-> "1", status |-> "Working"]] }

\* the searches the workers get: query and outside world
WorkerSearches ==
    { [get |-> ZipQuery, env |-> ApiAnswers(<<Tesla1, Electrify2>>)],
      [get |-> ZipQuery, env |-> ApiTimesOut] }

NextWorkers ==
    \/ \E sub \in WorkerSubmissions : PostPreSave(sub.user, sub.post)
    \/ \E w \in DOMAIN inflight : PostInsert(w)
    \/ \E search \in WorkerSearches : ListLatest(search.get, search.env)
    \/ \E w \in DOMAIN inflight :
          /\ inflight[w].op = "station_list"
          /\ inflight[w].pc = "status_records"
          /\ \E order \in QueryOrders(StatusRecordsWith(store,
                              StationIds(ViewStations(inflight[w].get, inflight[w].env).r.value),
                              inflight[w].latest_ids)) :
                ListRecords(w, order)
    \/ Tick

SpecWorkers == Init /\ [][NextWorkers]_vars

\* the tables the workers can find when they start: empty, one report, and
\* two stations reported within one reading of the clock
SeededStores ==
    { <<>>,
      <<[nrel_station_id |-> "1", status |-> "Working", user |-> "alice", updated_at |-> 0]>>,
      <<[nrel_station_id |-> "1", status |-> "Working", user |-> "alice", updated_at |-> 0],
        [nrel_station_id |-> "2", status |-> "Working", user |-> "bob", updated_at |-> 0]>> }

InitReconcile ==
    /\ store \in SeededStores
    /\ request = NoRequest
    /\ response = NoResponse
    /\ cache = NoCache
    /\ clock = 0
    /\ inflight = NoWorkers

SpecReconcile == InitReconcile /\ [][NextWorkers]_vars

(***************************************************************************)
(* Properties of concurrent submissions (checked under SpecWorkers)        *)
(***************************************************************************)
\* the submissions that were accepted and answered
AcceptedWorkers ==
    {w \in DOMAIN inflight : /\ inflight[w].op = "submit_status"
                             /\ inflight[w].pc = "done"
                             /\ inflight[w].response.status_code = 200}

\* the row an accepted submission asked for
RowOf(w) ==
    [nrel_station_id |-> CleanStationId(inflight[w].post),
     status |-> CleanStatus(inflight[w].post),
     user |-> inflight[w].user,
     updated_at |-> inflight[w].now]

\* C25: however the submissions interleave, the table holds exactly one row
\* for each accepted submission, with its station identifier, status and
\* user: as many rows as answers, and of every row as many copies as there
\* are accepted submissions that asked for it.
C25_IndependentInserts ==
    /\ Len(store) = Cardinality(AcceptedWorkers)
    /\ \A w \in AcceptedWorkers :
          Cardinality({i \in DOMAIN store : store[i] = RowOf(w)})
              = Cardinality({v \in AcceptedWorkers : RowOf(v) = RowOf(w)})

\* three submissions overlapped: all are answered, the first row was stamped
\* after the second, and two rows of one station carry one timestamp
C25_Witness ==
    /\ Len(inflight) = 3
    /\ Cardinality(AcceptedWorkers) = 3
    /\ Len(store) = 3
    /\ store[1].updated_at > store[2].updated_at
    /\ \E i, j \in DOMAIN store :
          /\ i # j
          /\ store[i].nrel_station_id = store[j].nrel_station_id
          /\ store[i].updated_at = store[j].updated_at
          /\ store[i].user # store[j].user

(***************************************************************************)
(* Properties of reconciliation beside submissions (under SpecReconcile)   *)
(***************************************************************************)
ListDone(w) ==
    /\ inflight[w].op = "station_list"
    /\ inflight[w].pc = "done"
    /\ inflight[w].response.status_code = 200

\* the stations of the page made for request w, each with its local_status
Merged(w) == inflight[w].response.context.paginator.object_list

\* C26: with submissions inserted between the two queries, every station
\* that had a row at the first query is attached a status, and that status
\* is the status of a row of the station at least as new as the newest row
\* the first query saw, never of an older row.
C26_ReconcileAcrossQueries ==
    \A w \in DOMAIN inflight :
        ListDone(w) =>
            \A k \in DOMAIN Merged(w) :
                LET sid == StationId(Merged(w)[k])
                IN  sid \in DOMAIN inflight[w].latest_ids =>
                      /\ Merged(w)[k]["local_status"] # JNull
                      /\ \E i \in DOMAIN store :
                            /\ store[i].nrel_station_id = sid
                            /\ store[i].updated_at >= inflight[w].latest_ids[sid]
                            /\ JStr(store[i].status) = Merged(w)[k]["local_status"]

\* the first half of C26: a station with a row at the first query is
\* attached a status
C26_StillAttached ==
    \A w \in DOMAIN inflight :
        ListDone(w) =>
            \A k \in DOMAIN Merged(w) :
                StationId(Merged(w)[k]) \in DOMAIN inflight[w].latest_ids =>
                    Merged(w)[k]["local_status"] # JNull

\* C26 for the tables in which no two rows carry the same timestamp
C26_NotOlderDistinctTimes ==
    (\A i, j \in DOMAIN store : store[i].updated_at = store[j].updated_at => i = j) =>
        C26_ReconcileAcrossQueries

\* a row of station 1 newer than the one the first query saw is in the table
\* before the second query runs
C26_InsertedBetweenQueries ==
    \E w \in DOMAIN inflight :
        /\ inflight[w].op = "station_list"
        /\ inflight[w].pc = "status_records"
        /\ "1" \in DOMAIN inflight[w].latest_ids
        /\ \E i \in DOMAIN store :
              /\ store[i].nrel_station_id = "1"
              /\ store[i].updated_at > inflight[w].latest_ids["1"]

====
